---- MODULE Spec2Model ----
(***************************************************************************)
(* Model of the OpenPhish feed watcher (data-collection/pull-openphish-    *)
(* feed.py) and of the blacklist server (blacklist/blacklist-server.py).   *)
(*                                                                         *)
(* Strings are sequences of one-character strings, so that str.strip() is  *)
(* a real operation.  A DataFrame is [columns, rows]: the column names in  *)
(* order and the rows in order, each row a function from column name to    *)
(* string.                                                                 *)
(***************************************************************************)
EXTENDS Integers, Sequences, FiniteSets, TLC

VARIABLES
    \* ---- get_new_entries applied to two snapshots (DiffSpec)
    d_prev, d_act, d_out,
    \* ---- chunks applied to a url list (ChunksSpec)
    c_list, c_out,
    \* ---- request_gsb_api applied to a url list and the remote answers (GsbSpec)
    g_urls, g_answers, g_clock, g_out,
    \* ---- the blacklist server: ledger file and the last handled request
    csv_exists, csv_lines, s_data, s_answers, s_reply, s_res, s_out, s_appended,
    s_requests, s_restarts,
    \* ---- the poll loop of the feed watcher (Spec)
    pc, proc, why, prev_df, act_df, new_entries, repo_cloned, feed_csv,
    evaluation_feed, posted, cycles, last_new, exit_status, pulls_since_sleep,
    \* ---- what surrounds the feed watcher: the feed.csv of the upstream
    \*      repository, the restarts of the process, and the rows the feed
    \*      gained while the process was down
    upstream, restarts, gap_rows,
    \* ---- the request handlers of one server process running side by side
    h_pc, h_out, h_hdr

diffVars   == <<d_prev, d_act, d_out>>
chunkVars  == <<c_list, c_out>>
gsbVars    == <<g_urls, g_answers, g_clock, g_out>>
serverVars == <<csv_exists, csv_lines, s_data, s_answers, s_reply, s_res, s_out,
                s_appended, s_requests, s_restarts>>
envVars    == <<upstream, restarts, gap_rows>>
pollVars   == <<pc, proc, why, prev_df, act_df, new_entries, repo_cloned,
                feed_csv, evaluation_feed, posted, cycles, last_new, exit_status,
                pulls_since_sleep, envVars>>
concVars   == <<h_pc, h_out, h_hdr>>
vars       == <<diffVars, chunkVars, gsbVars, serverVars, pollVars, concVars>>

-----------------------------------------------------------------------------
(* Generic helpers *)

Range(s) == {s[i] : i \in 1..Len(s)}

SeqsUpTo(S, n) == UNION {[1..k -> S] : k \in 0..n}

Min(a, b) == IF a < b THEN a ELSE b

RECURSIVE Flatten(_)
Flatten(ss) == IF ss = <<>> THEN <<>> ELSE Head(ss) \o Flatten(Tail(ss))

-----------------------------------------------------------------------------
(* Strings *)

WS == " "

RECURSIVE lstrip(_)
lstrip(s) == IF s # <<>> /\ Head(s) = WS THEN lstrip(Tail(s)) ELSE s

RECURSIVE rstrip(_)
rstrip(s) ==
    IF s # <<>> /\ s[Len(s)] = WS THEN rstrip(SubSeq(s, 1, Len(s) - 1)) ELSE s

\* str.strip(): leading and trailing whitespace removed
strip(s) == rstrip(lstrip(s))

-----------------------------------------------------------------------------
(* DataFrames *)

DataFrame(cols, rows) == [columns |-> cols, rows |-> rows]

\* df[cols]: the listed columns in the listed order; KeyError when one is missing
HasColumns(df, cols) == Range(cols) \subseteq Range(df.columns)

SelectColumns(df, cols) ==
    DataFrame(cols, [i \in 1..Len(df.rows) |-> [c \in Range(cols) |-> df.rows[i][c]]])

\* df[c] = df[c].fillna("").astype(str).str.strip() for every (object) column
NormalizeStrings(df) ==
    DataFrame(df.columns,
              [i \in 1..Len(df.rows) |->
                  [c \in DOMAIN df.rows[i] |-> strip(df.rows[i][c])]])

\* DataFrame.drop_duplicates(): the first occurrence of every row, in order
RECURSIVE DropDuplicatesRows(_)
DropDuplicatesRows(rows) ==
    IF rows = <<>> THEN <<>>
    ELSE LET init == DropDuplicatesRows(SubSeq(rows, 1, Len(rows) - 1))
             last == rows[Len(rows)]
         IN  IF last \in Range(init) THEN init ELSE Append(init, last)

drop_duplicates(df) == DataFrame(df.columns, DropDuplicatesRows(df.rows))

\* left.merge(right, on=all columns, how="left", indicator=True): for every left
\* row, in order, one output row per equal right row ("both"), or one row
\* marked "left_only" when there is none.  The result is the _merge column.
MergeIndicatorOfRow_inverted(row, right_rows) ==
    LET hits == SelectSeq(right_rows, LAMBDA r : r = row)
    IN  IF hits = <<>> THEN <<"both">>
        ELSE [k \in 1..Len(hits) |-> "left_only"]

MergeIndicatorOfRow(row, right_rows) ==
    LET hits == SelectSeq(right_rows, LAMBDA r : r = row)
    IN  IF hits = <<>> THEN <<"left_only">>
        ELSE [k \in 1..Len(hits) |-> "both"]

MergeIndicator(left_rows, right_rows) ==
    Flatten([i \in 1..Len(left_rows) |-> MergeIndicatorOfRow(left_rows[i], right_rows)])

\* df.loc[mask]: the rows whose mask entry is true; the boolean mask must have
\* the frame's index (pandas raises IndexingError otherwise)
RECURSIVE MaskRows(_, _)
MaskRows(rows, mask) ==
    IF rows = <<>> THEN <<>>
    ELSE IF Head(mask) THEN <<Head(rows)>> \o MaskRows(Tail(rows), Tail(mask))
    ELSE MaskRows(Tail(rows), Tail(mask))

-----------------------------------------------------------------------------
(* get_new_entries: pull-openphish-feed.py *)

\* the reference key set used by the anti-join
AntiJoinRight_keep_duplicates(prev_aligned) == prev_aligned

AntiJoinRight(prev_aligned) == drop_duplicates(prev_aligned)

\* which frame the new rows are taken from: the aligned, normalised copy
NewRowsSource(act, act_aligned) == act_aligned

\* the outcome of a call: the frame returned, or the exception raised
Returns(df) == [error |-> "", df |-> df]
Raises(e)   == [error |-> e, df |-> DataFrame(<<>>, <<>>)]
NotCalled   == Raises("not called")

get_new_entries(prev, act) ==
    LET cols == prev.columns
    IN  IF ~HasColumns(act, cols) THEN Raises("KeyError")
        ELSE
        LET act_aligned  == NormalizeStrings(SelectColumns(act, cols))
            prev_aligned == NormalizeStrings(SelectColumns(prev, cols))
            merged   == MergeIndicator(act_aligned.rows, AntiJoinRight(prev_aligned).rows)
            new_mask == [i \in 1..Len(merged) |-> merged[i] = "left_only"]
            source   == NewRowsSource(act, act_aligned)
        IN  IF Len(new_mask) # Len(source.rows) THEN Raises("IndexingError")
            ELSE Returns(DataFrame(source.columns, MaskRows(source.rows, new_mask)))

-----------------------------------------------------------------------------
(* DiffSpec: get_new_entries on bounded snapshots *)

MaxRows == 2

ColUrl  == "url"
ColTime == "discover_time"

\* feed values: urls with and without padding, two discovery times
FeedUrls  == {<<"a">>, <<"a", " ">>, <<"b">>}
FeedTimes == {<<"1">>, <<"2">>}

FeedColumns == {<<ColUrl, ColTime>>, <<ColTime, ColUrl>>, <<ColUrl>>}

RowsOver(cols) ==
    IF ColTime \in Range(cols)
    THEN {[c \in Range(cols) |-> IF c = ColUrl THEN u ELSE t] :
              u \in FeedUrls, t \in FeedTimes}
    ELSE {[c \in Range(cols) |-> u] : u \in FeedUrls}

Snapshots(n) ==
    UNION {{DataFrame(cols, rows) : rows \in SeqsUpTo(RowsOver(cols), n)} :
              cols \in FeedColumns}

-----------------------------------------------------------------------------
(* chunks and request_gsb_api: blacklist/blacklist-server.py *)

\* itertools.islice(it, size): the next (at most) size items
islice(seq, size) == SubSeq(seq, 1, Min(size, Len(seq)))

\* chunks that gives up at the first batch shorter than size
RECURSIVE chunks_full_only(_, _)
chunks_full_only(seq, size) ==
    LET batch == islice(seq, size)
    IN  IF Len(batch) < size THEN <<>>
        ELSE <<batch>> \o chunks_full_only(SubSeq(seq, Len(batch) + 1, Len(seq)), size)

RECURSIVE chunks(_, _)
chunks(seq, size) ==
    LET batch == islice(seq, size)
    IN  IF batch = <<>> THEN <<>>
        ELSE <<batch>> \o chunks(SubSeq(seq, Len(batch) + 1, Len(seq)), size)

\* the url limit per request that request_gsb_api passes to chunks
GSB_MAX_URLS == 500

\* The model's batch size: request_gsb_api is modelled with batches of this
\* size in place of GSB_MAX_URLS, so that short url lists span several batches.
BatchSize == 2

\* A match object of the response: {"threat": {"url": ...}, "threatType": ...};
\* has_url is false when the object carries no threat url.
Match(has_url, url, threatType) ==
    [has_url |-> has_url, url |-> url, threatType |-> threatType]

EmptyDict == Match(FALSE, <<>>, "")

\* json.dumps(obj)
dumps(obj) == [json |-> obj]

\* What the remote service does with one batch:
\*   kind "network_error": requests.post raises
\*   kind "not_json":      r.json() raises (the body is no JSON document)
\*   kind "json":          the body is a JSON object; status is the HTTP status
\*                         and matches its "matches" list (empty when absent)
Answer(kind, status, matches) == [kind |-> kind, status |-> status, matches |-> matches]

\* by_url[u]: the response's matches that reference u, in response order
by_url(matches, u) == SelectSeq(matches, LAMBDA m : m.has_url /\ m.url = u)

\* which of a url's matches is reported
PickMatch_last(matches_for_u) == matches_for_u[Len(matches_for_u)]

PickMatch(matches_for_u) == matches_for_u[1]

\* the labelled output object for one input url
LabelUrl(u, matches, batch_request_time) ==
    LET matches_for_u == by_url(matches, u)
    IN  IF matches_for_u # <<>>
        THEN [request_url |-> u, match_obj |-> PickMatch(matches_for_u),
              match_json_obj |-> dumps(PickMatch(matches_for_u)),
              request_time |-> batch_request_time, label |-> 0]
        ELSE [request_url |-> u, match_obj |-> EmptyDict,
              match_json_obj |-> dumps(EmptyDict),
              request_time |-> batch_request_time, label |-> 1]

\* rows for the matched urls of the batch only
BatchRows_matched_only(batch, answer, batch_request_time) ==
    LET hit == SelectSeq(batch, LAMBDA u : by_url(answer.matches, u) # <<>>)
    IN  [k \in 1..Len(hit) |-> LabelUrl(hit[k], answer.matches, batch_request_time)]

\* the rows one answered batch adds to all_rows
BatchRows(batch, answer, batch_request_time) ==
    [k \in 1..Len(batch) |-> LabelUrl(batch[k], answer.matches, batch_request_time)]

\* does the answer make requests.post or r.json() raise?
AnswerRaises(answer) == answer.kind \in {"network_error", "not_json"}

\* the loop of request_gsb_api over the batches; answers[i] is the remote
\* service's answer to batch i and clock[i] the time read before sending it
\* the loop with the time read once, before the first batch
RECURSIVE GsbLoop_one_time(_, _, _, _)
GsbLoop_one_time(batches, answers, clock, i) ==
    IF i > Len(batches) THEN [error |-> "", rows |-> <<>>, sent |-> 0]
    ELSE IF AnswerRaises(answers[i])
    THEN [error |-> answers[i].kind, rows |-> <<>>, sent |-> 1]
    ELSE LET rest == GsbLoop_one_time(batches, answers, clock, i + 1)
         IN  [error |-> rest.error,
              rows  |-> BatchRows(batches[i], answers[i], clock[1]) \o rest.rows,
              sent  |-> rest.sent + 1]

RECURSIVE GsbLoop(_, _, _, _)
GsbLoop(batches, answers, clock, i) ==
    IF i > Len(batches) THEN [error |-> "", rows |-> <<>>, sent |-> 0]
    ELSE IF AnswerRaises(answers[i])
    THEN [error |-> answers[i].kind, rows |-> <<>>, sent |-> 1]
    ELSE LET rest == GsbLoop(batches, answers, clock, i + 1)
         IN  [error |-> rest.error,
              rows  |-> BatchRows(batches[i], answers[i], clock[i]) \o rest.rows,
              sent  |-> rest.sent + 1]

\* request_gsb_api(url_list): error is the exception that left the function
\* ("" when it returned), rows the returned frame's rows (all_rows when it
\* raised), sent the number of batches posted
request_gsb_api(url_list, answers, clock) ==
    GsbLoop(chunks(url_list, BatchSize), answers, clock, 1)

-----------------------------------------------------------------------------
(* write_analyzed_urls_to_csv and ingest_urls: blacklist/blacklist-server.py *)

\* a record of the request body: {"url", "discover_time", "pulled_time"}
UrlRecord(url, discover_time, pulled_time) ==
    [url |-> url, discover_time |-> discover_time, pulled_time |-> pulled_time]

\* urls = [str(x.get("url")).strip() for x in data if ... x.get("url")]:
\* the records with a non-empty url, stripped, in order
RECURSIVE UrlsOf(_)
UrlsOf(data) ==
    IF data = <<>> THEN <<>>
    ELSE IF Head(data).url # <<>> THEN <<strip(Head(data).url)>> \o UrlsOf(Tail(data))
    ELSE UrlsOf(Tail(data))

\* the rows res.merge(req, on="url", how="left") makes of one result row: one
\* per request record with the same stripped url, in request order, and one
\* with NaN metadata (written "" by fillna) when there is none
LedgerRow(r, discover_time, pulled_time) ==
    [url |-> strip(r.request_url), match_json_obj |-> r.match_json_obj,
     discover_time |-> discover_time, pulled_time |-> pulled_time,
     request_time |-> r.request_time, label |-> r.label]

MergeResultRow(r, req) ==
    LET hits == SelectSeq(req, LAMBDA q : strip(q.url) = strip(r.request_url))
    IN  IF hits = <<>> THEN <<LedgerRow(r, <<>>, <<>>)>>
        ELSE [k \in 1..Len(hits) |-> LedgerRow(r, hits[k].discover_time, hits[k].pulled_time)]

\* out_df: the result rows joined to the request records
MergeResults(res, req) ==
    Flatten([i \in 1..Len(res) |-> MergeResultRow(res[i], req)])

\* lines of the csv file
HeaderLine == [kind |-> "header", row |-> LedgerRow([request_url |-> <<>>,
                  match_json_obj |-> dumps(EmptyDict), request_time |-> 0, label |-> 0],
                  <<>>, <<>>)]
RowLine(row) == [kind |-> "row", row |-> row]

\* write_header = not csv_path.exists()
write_header_if_missing(exists, lines) == ~exists

\* write_header = not csv_path.exists() or csv_path.stat().st_size == 0
write_header(exists, lines) == ~exists \/ lines = <<>>

\* out_df.to_csv(csv_path, mode="w", header=write_header): the file afterwards
to_csv_truncate(exists, lines, out_rows) ==
    (IF write_header(exists, lines) THEN <<HeaderLine>> ELSE <<>>)
          \o [k \in 1..Len(out_rows) |-> RowLine(out_rows[k])]

\* out_df.to_csv(csv_path, mode="a", header=write_header): the file afterwards
to_csv_append(exists, lines, out_rows) ==
    lines \o (IF write_header(exists, lines) THEN <<HeaderLine>> ELSE <<>>)
          \o [k \in 1..Len(out_rows) |-> RowLine(out_rows[k])]

\* write_analyzed_urls_to_csv(df_request, df_response) on the file (exists, lines)
write_analyzed_urls_to_csv(req, res, exists, lines) ==
    LET out_df == MergeResults(res, req)
    IN  [out_df |-> out_df, lines |-> to_csv_append(exists, lines, out_df)]

-----------------------------------------------------------------------------
(* Values the variables of a component hold while another one is checked *)

\* exit_status of a process that has not ended
StillRunning == -1

GsbNotCalled == [error |-> "not called", rows |-> <<>>, sent |-> 0]

DiffIdle   == d_prev = DataFrame(<<>>, <<>>) /\ d_act = DataFrame(<<>>, <<>>)
                /\ d_out = NotCalled
ChunksIdle == c_list = <<>> /\ c_out = [called |-> FALSE, batches |-> <<>>]
GsbIdle    == g_urls = <<>> /\ g_answers = <<>> /\ g_clock = <<>>
                /\ g_out = GsbNotCalled
ServerIdle == /\ csv_exists = FALSE /\ csv_lines = <<>> /\ s_data = <<>>
              /\ s_answers = <<>> /\ s_reply = "none" /\ s_res = GsbNotCalled
              /\ s_out = <<>> /\ s_appended = <<>> /\ s_requests = 0
              /\ s_restarts = 0
PollIdle   == /\ pc = "clone" /\ proc = "not started" /\ why = ""
              /\ prev_df = DataFrame(<<>>, <<>>) /\ act_df = DataFrame(<<>>, <<>>)
              /\ new_entries = DataFrame(<<>>, <<>>) /\ repo_cloned = FALSE
              /\ feed_csv = [exists |-> FALSE, df |-> DataFrame(<<>>, <<>>)]
              /\ evaluation_feed = [exists |-> FALSE, lines |-> <<>>]
              /\ posted = <<>> /\ cycles = 0 /\ last_new = <<>>
              /\ exit_status = StillRunning /\ pulls_since_sleep = 0
              /\ upstream = [exists |-> FALSE, df |-> DataFrame(<<>>, <<>>)]
              /\ restarts = 0 /\ gap_rows = <<>>

\* the threads the server handles two requests on
Handlers == {"h1", "h2"}

ConcIdle   == /\ h_pc = [h \in Handlers |-> "idle"]
              /\ h_out = [h \in Handlers |-> <<>>]
              /\ h_hdr = [h \in Handlers |-> FALSE]

-----------------------------------------------------------------------------
(* DiffSpec: get_new_entries applied to every pair of bounded snapshots *)

DiffInit ==
    /\ d_prev \in Snapshots(MaxRows)
    /\ d_act \in Snapshots(MaxRows)
    /\ d_out = NotCalled
    /\ ChunksIdle /\ GsbIdle /\ ServerIdle /\ PollIdle /\ ConcIdle

GetNewEntries ==
    /\ d_out = NotCalled
    /\ d_out' = get_new_entries(d_prev, d_act)
    /\ UNCHANGED <<d_prev, d_act, chunkVars, gsbVars, serverVars, pollVars, concVars>>

DiffNext == GetNewEntries

DiffSpec == DiffInit /\ [][DiffNext]_vars

-----------------------------------------------------------------------------
(* ChunksSpec: chunks(url_list, 500) on url lists of every bounded length *)

MaxListLen == 1001

\* the url list of length n with pattern k (urls are numbered here)
NumberedUrls(n, k) == [i \in 1..n |-> (i * k) % 3]

ChunksInit ==
    /\ \E n \in 0..MaxListLen, k \in {1, 2} : c_list = NumberedUrls(n, k)
    /\ c_out = [called |-> FALSE, batches |-> <<>>]
    /\ DiffIdle /\ GsbIdle /\ ServerIdle /\ PollIdle /\ ConcIdle

Chunks ==
    /\ ~c_out.called
    /\ c_out' = [called |-> TRUE, batches |-> chunks(c_list, GSB_MAX_URLS)]
    /\ UNCHANGED <<c_list, diffVars, gsbVars, serverVars, pollVars, concVars>>

ChunksNext == Chunks

ChunksSpec == ChunksInit /\ [][ChunksNext]_vars

-----------------------------------------------------------------------------
(* GsbSpec: request_gsb_api on bounded url lists and remote answers *)

MaxUrls == 4
MaxMatches == 2

UrlX == <<"x">>
UrlY == <<"y">>
UrlZ == <<"z">>

GsbUrls == {UrlX, UrlY}

\* two different matches for x, one for a url never submitted, one without url
MatchObjs == {Match(TRUE, UrlX, "MALWARE"), Match(TRUE, UrlX, "SOCIAL_ENGINEERING"),
              Match(TRUE, UrlZ, "MALWARE"), Match(FALSE, <<>>, "MALWARE")}

Answers(n) ==
    {Answer("network_error", 0, <<>>), Answer("not_json", 500, <<>>),
     Answer("json", 400, <<>>)}
    \cup {Answer("json", 200, m) : m \in SeqsUpTo(MatchObjs, n)}

NumBatches(n) == (n + BatchSize - 1) \div BatchSize

\* the clock read before each of n batches: it stands still or ticks
Clock(n, tick) == [i \in 1..n |-> 1 + tick * (i - 1)]

GsbInit ==
    /\ g_urls \in SeqsUpTo(GsbUrls, MaxUrls)
    /\ g_answers \in [1..NumBatches(Len(g_urls)) -> Answers(MaxMatches)]
    /\ \E tick \in {0, 1} : g_clock = Clock(NumBatches(Len(g_urls)), tick)
    /\ g_out = GsbNotCalled
    /\ DiffIdle /\ ChunksIdle /\ ServerIdle /\ PollIdle /\ ConcIdle

RequestGsbApi ==
    /\ g_out = GsbNotCalled
    /\ g_out' = request_gsb_api(g_urls, g_answers, g_clock)
    /\ UNCHANGED <<g_urls, g_answers, g_clock, diffVars, chunkVars, serverVars, pollVars, concVars>>

GsbNext == RequestGsbApi

GsbSpec == GsbInit /\ [][GsbNext]_vars

-----------------------------------------------------------------------------
(* ServerSpec: the blacklist server handling /ingest-urls requests, one at a
   time, on the ledger file blacklist-evaluation-results.csv *)

MaxRequests == 2

RecX      == UrlRecord(UrlX, <<"d", "1">>, <<"p">>)
RecXpad   == UrlRecord(<<" ", "x">>, <<"d", "2">>, <<"p">>)
RecY      == UrlRecord(UrlY, <<"d", "1">>, <<"p">>)
RecNoUrl  == UrlRecord(<<>>, <<"d", "1">>, <<"p">>)

RecBlank  == UrlRecord(<<" ">>, <<"d", "2">>, <<"p">>)

\* request bodies: empty, a record without url, a single url, a blank url, a url
\* twice (once padded), and a body whose urls span two batches
ServerRequests ==
    {<<>>, <<RecNoUrl>>, <<RecY>>, <<RecBlank, RecNoUrl>>, <<RecX, RecXpad>>,
     <<RecX, RecNoUrl, RecY, RecXpad, RecY>>}

ServerAnswers ==
    {Answer("network_error", 0, <<>>), Answer("not_json", 500, <<>>),
     Answer("json", 400, <<>>), Answer("json", 200, <<>>),
     Answer("json", 200, <<Match(TRUE, UrlX, "MALWARE")>>)}

\* the answers the remote service gives while one request is handled: one per
\* batch, up to and including the first that makes the call raise
AnswersFor(n) ==
    {a \in UNION {[1..k -> ServerAnswers] : k \in 0..n} :
        /\ \A i \in 1..(Len(a) - 1) : ~AnswerRaises(a[i])
        /\ Len(a) < n => (Len(a) > 0 /\ AnswerRaises(a[Len(a)]))}

ServerInit ==
    /\ csv_exists \in BOOLEAN
    /\ csv_lines = <<>>
    /\ s_data = <<>> /\ s_answers = <<>> /\ s_reply = "none" /\ s_res = GsbNotCalled
    /\ s_out = <<>> /\ s_appended = <<>> /\ s_requests = 0 /\ s_restarts = 0
    /\ DiffIdle /\ ChunksIdle /\ GsbIdle /\ PollIdle /\ ConcIdle

\* ingest_urls: the whole handler for one request body
IngestUrls(data, answers) ==
    LET urls  == UrlsOf(data)
        clock == [i \in 1..Len(answers) |-> s_requests + i]
        res   == request_gsb_api(urls, answers, clock)
        w     == write_analyzed_urls_to_csv(data, res.rows, csv_exists, csv_lines)
    IN  /\ s_requests < MaxRequests
        /\ s_requests' = s_requests + 1
        /\ s_data' = data
        /\ s_answers' = answers
        /\ s_res' = res
        /\ IF res.error # ""
           THEN \* the exception leaves the handler: Flask answers 500
                /\ s_reply' = "500"
                /\ s_out' = <<>>
                /\ s_appended' = <<>>
                /\ UNCHANGED <<csv_exists, csv_lines>>
           ELSE /\ s_reply' = "ok"
                /\ s_out' = w.out_df
                /\ s_appended' = SubSeq(w.lines, Len(csv_lines) + 1, Len(w.lines))
                /\ csv_exists' = TRUE
                /\ csv_lines' = w.lines
        /\ UNCHANGED <<s_restarts, diffVars, chunkVars, gsbVars, pollVars, concVars>>

\* the server process is stopped and started again: the file stays
RestartServer ==
    /\ s_restarts < s_requests
    /\ s_restarts' = s_restarts + 1
    /\ UNCHANGED <<csv_exists, csv_lines, s_data, s_answers, s_reply, s_res, s_out,
                   s_appended, s_requests, diffVars, chunkVars, gsbVars, pollVars, concVars>>

ServerNext ==
    \/ \E data \in ServerRequests :
           \E answers \in AnswersFor(NumBatches(Len(UrlsOf(data)))) :
               IngestUrls(data, answers)
    \/ RestartServer

ServerSpec == ServerInit /\ [][ServerNext]_vars

-----------------------------------------------------------------------------
(* ConcSpec: one server process (app.run serves every request on a thread of
   its own) handling two /ingest-urls requests whose handlers interleave.  A
   handler takes three steps: it builds out_df, it evaluates write_header on
   the file as it is then, and it appends with the header flag it holds. *)

\* out_df.to_csv(csv_path, mode="a", header=header): the file afterwards
to_csv(lines, out_rows, header) ==
    lines \o (IF header THEN <<HeaderLine>> ELSE <<>>)
          \o [k \in 1..Len(out_rows) |-> RowLine(out_rows[k])]

ConcInit ==
    /\ csv_exists \in BOOLEAN
    /\ csv_lines = <<>>
    /\ s_data = <<>> /\ s_answers = <<>> /\ s_reply = "none" /\ s_res = GsbNotCalled
    /\ s_out = <<>> /\ s_appended = <<>> /\ s_requests = 0 /\ s_restarts = 0
    /\ ConcIdle
    /\ DiffIdle /\ ChunksIdle /\ GsbIdle /\ PollIdle

\* ingest_urls up to the merge in write_analyzed_urls_to_csv
HandleRequest(h, data, answers) ==
    LET urls  == UrlsOf(data)
        clock == [i \in 1..Len(answers) |-> i]
        res   == request_gsb_api(urls, answers, clock)
    IN  /\ h_pc[h] = "idle"
        /\ IF res.error # ""
           THEN /\ h_pc' = [h_pc EXCEPT ![h] = "failed"]
                /\ UNCHANGED h_out
           ELSE /\ h_pc' = [h_pc EXCEPT ![h] = "check"]
                /\ h_out' = [h_out EXCEPT ![h] = MergeResults(res.rows, data)]
        /\ UNCHANGED <<h_hdr, serverVars, diffVars, chunkVars, gsbVars, pollVars>>

\* write_header = not csv_path.exists() or csv_path.stat().st_size == 0
CheckHeader(h) ==
    /\ h_pc[h] = "check"
    /\ h_hdr' = [h_hdr EXCEPT ![h] = write_header(csv_exists, csv_lines)]
    /\ h_pc' = [h_pc EXCEPT ![h] = "append"]
    /\ UNCHANGED <<h_out, serverVars, diffVars, chunkVars, gsbVars, pollVars>>

\* out_df.to_csv(csv_path, mode="a", header=write_header) and the reply
AppendToCsv(h) ==
    /\ h_pc[h] = "append"
    /\ csv_lines' = to_csv(csv_lines, h_out[h], h_hdr[h])
    /\ csv_exists' = TRUE
    /\ h_pc' = [h_pc EXCEPT ![h] = "done"]
    /\ UNCHANGED <<h_out, h_hdr, s_data, s_answers, s_reply, s_res, s_out, s_appended,
                   s_requests, s_restarts, diffVars, chunkVars, gsbVars, pollVars>>

ConcNext ==
    \/ \E h \in Handlers : \E data \in ServerRequests :
           \E answers \in AnswersFor(NumBatches(Len(UrlsOf(data)))) :
               HandleRequest(h, data, answers)
    \/ \E h \in Handlers : CheckHeader(h)
    \/ \E h \in Handlers : AppendToCsv(h)

ConcSpec == ConcInit /\ [][ConcNext]_vars

-----------------------------------------------------------------------------
(* write_new_entries, utc_to_berlin and main: pull-openphish-feed.py *)

\* discover_time values strptime accepts ("%d-%m-%Y %H:%M:%S", "UTC" removed)
ValidTimes == {<<"1">>, <<"2">>}

\* utc_to_berlin(ts_str): the Berlin-time text, or ValueError from strptime
utc_to_berlin(ts_str) ==
    LET t == strip(ts_str)
    IN  IF t \in ValidTimes THEN [error |-> "", text |-> <<"B">> \o t]
        ELSE [error |-> "ValueError", text |-> <<>>]

\* lines of evaluation-feed.csv
FeedHeader(cols) == [kind |-> "header", columns |-> cols, row |-> <<>>]
FeedLine(cols, values) == [kind |-> "row", columns |-> cols, row |-> values]

\* new_entries.reindex(columns=cols): the row's value per column, "" where the
\* frame has no such column
Reindex(row, cols) ==
    [k \in 1..Len(cols) |-> IF cols[k] \in DOMAIN row THEN row[cols[k]] ELSE <<>>]

\* write_new_entries(new_entries) on the file: the file afterwards
write_new_entries(df, file) ==
    LET header_needed == ~file.exists \/ file.lines = <<>>
        cols == IF file.exists /\ file.lines # <<>> THEN file.lines[1].columns
                ELSE df.columns
    IN  [exists |-> TRUE,
         lines  |-> file.lines
                    \o (IF header_needed THEN <<FeedHeader(cols)>> ELSE <<>>)
                    \o [k \in 1..Len(df.rows) |-> FeedLine(cols, Reindex(df.rows[k], cols))]]

\* the payload for the blacklist server: url, converted discover_time, pulled_time
Payload(df, pull_time) ==
    [k \in 1..Len(df.rows) |->
        UrlRecord(df.rows[k][ColUrl], utc_to_berlin(df.rows[k][ColTime]).text, pull_time)]

\* prev_df = act_df.copy(): the baseline for the next iteration
NextPrevious_unchanged(prev, act) == prev

NextPrevious(prev, act) == act

-----------------------------------------------------------------------------
(* Spec: the poll loop of main() *)

MaxCycles == 3

MaxRestarts == 1

Row2(u, t) == [c \in {ColUrl, ColTime} |-> IF c = ColUrl THEN u ELSE t]
Row1(u)    == [c \in {ColUrl} |-> u]

\* the states of feed.csv the upstream repository moves through
PollFeeds ==
    {DataFrame(<<ColUrl, ColTime>>, <<>>),
     DataFrame(<<ColUrl, ColTime>>, <<Row2(<<"a">>, <<"1">>)>>),
     DataFrame(<<ColUrl, ColTime>>, <<Row2(<<"a">>, <<"1">>), Row2(<<"b", " ">>, <<"2">>)>>),
     DataFrame(<<ColUrl, ColTime>>, <<Row2(<<"a">>, <<"1">>), Row2(<<"c">>, <<"?">>)>>),
     DataFrame(<<ColUrl>>, <<Row1(<<"a">>), Row1(<<"b">>)>>)}

NoFrame == DataFrame(<<>>, <<>>)

\* feed.csv in the local clone: present with a snapshot, or absent
FeedFiles == {[exists |-> TRUE, df |-> f] : f \in PollFeeds}
                 \cup {[exists |-> FALSE, df |-> NoFrame]}

Init ==
    /\ pc = "clone" /\ proc = "running" /\ why = ""
    /\ prev_df = NoFrame /\ act_df = NoFrame /\ new_entries = NoFrame
    /\ repo_cloned \in BOOLEAN
    /\ feed_csv \in FeedFiles
    /\ repo_cloned = FALSE => feed_csv.exists = FALSE
    /\ evaluation_feed = [exists |-> FALSE, lines |-> <<>>]
    /\ posted = <<>> /\ cycles = 0 /\ last_new = <<>>
    /\ exit_status = StillRunning /\ pulls_since_sleep = 0
    /\ upstream \in FeedFiles
    /\ restarts = 0 /\ gap_rows = <<>>
    /\ DiffIdle /\ ChunksIdle /\ GsbIdle /\ ServerIdle /\ ConcIdle

Running(at) == proc = "running" /\ pc = at

\* the message is printed and main() goes on into the loop
Exit_into_loop(reason) ==
    proc' = proc /\ why' = reason /\ pc' = "pull" /\ exit_status' = exit_status

\* sys.exit(2)
Exit(reason) == proc' = "exited" /\ why' = reason /\ pc' = pc /\ exit_status' = 2

\* an exception nothing catches leaves main()
Crash(reason) == proc' = "crashed" /\ why' = reason /\ pc' = pc /\ exit_status' = 1

\* an existing clone is brought up to date before feed.csv is read
InitialFeed_refreshed(cloned, local, remote) == remote

\* feed.csv after ensure_repo_cloned returned: an existing directory is left
\* as it is, a missing one is cloned from the remote repository
InitialFeed(cloned, local, remote) == IF cloned THEN local ELSE remote

\* ensure_repo_cloned inside try/except: clone when the directory is missing
EnsureRepoCloned ==
    /\ Running("clone")
    /\ \/ /\ repo_cloned
          /\ feed_csv' = InitialFeed(TRUE, feed_csv, upstream)
          /\ pc' = "check_feed"
          /\ UNCHANGED <<proc, why, exit_status, repo_cloned>>
       \/ /\ ~repo_cloned   \* git clone succeeds
          /\ repo_cloned' = TRUE
          /\ feed_csv' = InitialFeed(FALSE, feed_csv, upstream)
          /\ pc' = "check_feed"
          /\ UNCHANGED <<proc, why, exit_status>>
       \/ /\ ~repo_cloned   \* git clone fails: run raises, main exits
          /\ Exit("cloning repository failed")
          /\ UNCHANGED <<repo_cloned, feed_csv>>
    /\ UNCHANGED <<prev_df, act_df, new_entries, evaluation_feed, posted, cycles,
                   last_new, diffVars, chunkVars, gsbVars, serverVars, concVars, envVars, pulls_since_sleep>>

\* the check for feed.csv and the first read, before the loop
ReadInitialFeed ==
    /\ Running("check_feed")
    /\ IF ~feed_csv.exists
       THEN Exit("feed file not found") /\ UNCHANGED prev_df
       ELSE /\ prev_df' = feed_csv.df
            /\ pc' = "pull"
            /\ UNCHANGED <<proc, why, exit_status>>
    /\ UNCHANGED <<act_df, new_entries, repo_cloned, feed_csv, evaluation_feed, posted,
                   cycles, last_new, diffVars, chunkVars, gsbVars, serverVars, concVars, envVars, pulls_since_sleep>>

\* top of the loop: pull_time taken, git_pull(local_dir)
GitPull ==
    /\ Running("pull")
    /\ cycles < MaxCycles
    /\ cycles' = cycles + 1
    /\ pulls_since_sleep' = pulls_since_sleep + 1
    /\ \/ /\ feed_csv' = upstream   \* the pull succeeds
          /\ pc' = "read"
          /\ UNCHANGED <<proc, why, exit_status>>
       \/ /\ Crash("RuntimeError")     \* the pull fails: run raises
          /\ UNCHANGED feed_csv
    /\ UNCHANGED <<prev_df, act_df, new_entries, repo_cloned, evaluation_feed, posted,
                   last_new, diffVars, chunkVars, gsbVars, serverVars, concVars, envVars>>

\* feed_csv.exists() and read_feed_csv_as_dataframe
ReadFeed ==
    /\ Running("read")
    /\ IF ~feed_csv.exists
       THEN pc' = "pull" /\ UNCHANGED act_df   \* the else branch, sleep included, is skipped
       ELSE pc' = "diff" /\ act_df' = feed_csv.df
    /\ UNCHANGED <<proc, why, exit_status, prev_df, new_entries, repo_cloned, feed_csv,
                   evaluation_feed, posted, cycles, last_new, diffVars, chunkVars,
                   gsbVars, serverVars, concVars, envVars, pulls_since_sleep>>

\* new_entries = get_new_entries(prev_df, act_df); prev_df = act_df.copy()
Diff ==
    /\ Running("diff")
    /\ LET out == get_new_entries(prev_df, act_df)
       IN  IF out.error # ""
           THEN Crash(out.error) /\ UNCHANGED <<prev_df, new_entries, last_new>>
           ELSE /\ new_entries' = out.df
                /\ last_new' = new_entries.rows
                /\ prev_df' = NextPrevious(prev_df, act_df)
                /\ pc' = IF out.df.rows # <<>> THEN "write" ELSE "sleep"
                /\ UNCHANGED <<proc, why, exit_status>>
    /\ UNCHANGED <<act_df, repo_cloned, feed_csv, evaluation_feed, posted, cycles,
                   diffVars, chunkVars, gsbVars, serverVars, concVars, envVars, pulls_since_sleep>>

\* write_new_entries(new_entries): appends, or raises when the file cannot be written
WriteNewEntries ==
    /\ Running("write")
    /\ \/ /\ evaluation_feed' = write_new_entries(new_entries, evaluation_feed)
          /\ pc' = "send"
          /\ UNCHANGED <<proc, why, exit_status>>
       \/ /\ Crash("OSError")
          /\ UNCHANGED evaluation_feed
    /\ UNCHANGED <<prev_df, act_df, new_entries, repo_cloned, feed_csv, posted, cycles,
                   last_new, diffVars, chunkVars, gsbVars, serverVars, concVars, envVars, pulls_since_sleep>>

\* the payload is built and posted to the blacklist server; a status other
\* than 200 and a RequestException are printed
SendToBlacklistServer ==
    /\ Running("send")
    /\ IF ~HasColumns(new_entries, <<ColUrl, ColTime>>)
       THEN pc' = "sleep" /\ UNCHANGED <<proc, why, exit_status, posted>>
       ELSE IF \E k \in 1..Len(new_entries.rows) :
                   utc_to_berlin(new_entries.rows[k][ColTime]).error # ""
       THEN Crash("ValueError") /\ UNCHANGED posted
       ELSE /\ \E outcome \in {"200", "500", "RequestException"} :
                 posted' = <<[payload |-> Payload(new_entries, cycles),
                              outcome |-> outcome]>>
            /\ pc' = "sleep"
            /\ UNCHANGED <<proc, why, exit_status>>
    /\ UNCHANGED <<prev_df, act_df, new_entries, repo_cloned, feed_csv,
                   evaluation_feed, cycles, last_new, diffVars, chunkVars, gsbVars,
                   serverVars, concVars, envVars, pulls_since_sleep>>

\* time.sleep(pull_interval) returns
Sleep ==
    /\ Running("sleep")
    /\ pc' = "pull"
    /\ pulls_since_sleep' = 0
    /\ UNCHANGED <<proc, why, exit_status, prev_df, act_df, new_entries, repo_cloned, feed_csv,
                   evaluation_feed, posted, cycles, last_new, diffVars, chunkVars,
                   gsbVars, serverVars, concVars, envVars>>

\* SIGINT: KeyboardInterrupt is raised where main() stands; only the sleep has
\* an except clause for it, there the loop breaks and main() returns
Interrupt ==
    /\ proc = "running"
    /\ why' = "KeyboardInterrupt"
    /\ proc' = IF pc = "sleep" THEN "terminated" ELSE "crashed"
    /\ exit_status' = IF pc = "sleep" THEN 0 ELSE 1
    /\ UNCHANGED <<pc, prev_df, act_df, new_entries, repo_cloned, feed_csv,
                   evaluation_feed, posted, cycles, last_new, diffVars, chunkVars,
                   gsbVars, serverVars, concVars, envVars, pulls_since_sleep>>

\* the upstream repository publishes another feed.csv
FeedUpdate ==
    /\ upstream' \in FeedFiles \ {upstream}
    /\ gap_rows' = <<>>
    /\ UNCHANGED <<pc, proc, why, prev_df, act_df, new_entries, repo_cloned, feed_csv,
                   evaluation_feed, posted, cycles, last_new, exit_status,
                   pulls_since_sleep, restarts, diffVars, chunkVars, gsbVars,
                   serverVars, concVars>>

\* the rows feed.csv of the upstream repository holds that the baseline prev of
\* the ended process does not hold
GapRows(prev, up) ==
    IF ~up.exists \/ prev = NoFrame THEN <<>>
    ELSE LET out == get_new_entries(prev, up.df)
         IN  IF out.error = "" THEN out.df.rows ELSE <<>>

\* the ended process is started again: main() runs from its first line, the
\* files on disk are what the ended process left.  gap_rows is taken when the
\* process ended in the sleep of a completed cycle, its baseline then being
\* the snapshot of that cycle.
Restart ==
    /\ proc \in {"exited", "crashed", "terminated"}
    /\ restarts < MaxRestarts
    /\ restarts' = restarts + 1
    /\ gap_rows' = IF proc = "terminated" THEN GapRows(prev_df, upstream) ELSE <<>>
    /\ pc' = "clone" /\ proc' = "running" /\ why' = ""
    /\ exit_status' = StillRunning
    /\ prev_df' = NoFrame /\ act_df' = NoFrame /\ new_entries' = NoFrame
    /\ last_new' = <<>> /\ pulls_since_sleep' = 0
    /\ UNCHANGED <<repo_cloned, feed_csv, evaluation_feed, posted, cycles, upstream,
                   diffVars, chunkVars, gsbVars, serverVars, concVars>>

Next ==
    \/ EnsureRepoCloned
    \/ ReadInitialFeed
    \/ GitPull
    \/ ReadFeed
    \/ Diff
    \/ WriteNewEntries
    \/ SendToBlacklistServer
    \/ Sleep
    \/ Interrupt
    \/ FeedUpdate
    \/ Restart

Spec == Init /\ [][Next]_vars

-----------------------------------------------------------------------------
(* Properties of get_new_entries (DiffSpec) *)

DiffCalled == d_out # NotCalled

SameColumnSets == Range(d_prev.columns) = Range(d_act.columns)

\* row is the row src with every value stripped
IsStrippedFormOf(row, src) ==
    /\ DOMAIN row = DOMAIN src
    /\ \A c \in DOMAIN row : row[c] = strip(src[c])

DiffOfSelfEmpty == d_prev = d_act => d_out.df.rows = <<>>

NoDiffRowInPrev ==
    \A i \in 1..Len(d_out.df.rows) : d_out.df.rows[i] \notin Range(d_prev.rows)

\* C1 as stated: for snapshots with identical column sets Diff(A, A) is empty,
\* no row of Diff(A, B) occurs verbatim in A, and every row of Diff(A, B) is a
\* row of B.
C1_DiffRowsAreRowsOfCurrent ==
    (DiffCalled /\ SameColumnSets) =>
        /\ d_out.error = ""
        /\ DiffOfSelfEmpty
        /\ NoDiffRowInPrev
        /\ \A i \in 1..Len(d_out.df.rows) : d_out.df.rows[i] \in Range(d_act.rows)

\* C1 amended: for snapshots with identical column sets Diff(A, A) is empty,
\* no row of Diff(A, B) occurs verbatim in A, and every row of Diff(A, B) is
\* the whitespace-stripped form of a row of B.
C1_DiffRowsAreStrippedRowsOfCurrent ==
    (DiffCalled /\ SameColumnSets) =>
        /\ d_out.error = ""
        /\ DiffOfSelfEmpty
        /\ NoDiffRowInPrev
        /\ \A i \in 1..Len(d_out.df.rows) :
              \E j \in 1..Len(d_act.rows) :
                  IsStrippedFormOf(d_out.df.rows[i], d_act.rows[j])

\* a padded row of B is reported as new, next to a row of B that A holds
C1_Witness ==
    /\ DiffCalled /\ SameColumnSets /\ d_prev.columns # d_act.columns
    /\ d_prev.rows # <<>>
    /\ Len(d_act.rows) = 2 /\ Len(d_out.df.rows) = 1
    /\ d_act.rows[1] \in Range(d_prev.rows)
    /\ d_act.rows[2][ColUrl] # strip(d_act.rows[2][ColUrl])
    /\ IsStrippedFormOf(d_out.df.rows[1], d_act.rows[2])

\* C11: get_new_entries fails with an error whenever the column sets of
\* previous and current differ, whichever of the two has the extra column.
C11_SchemaMismatchFails ==
    (DiffCalled /\ ~SameColumnSets) => d_out.error # ""

\* the rows of frame df, cut to the columns cols and stripped
AlignedRows(df, cols) ==
    [i \in 1..Len(df.rows) |-> [c \in Range(cols) |-> strip(df.rows[i][c])]]

\* s is t with some entries left out
RECURSIVE IsSubsequence(_, _)
IsSubsequence(s, t) ==
    IF s = <<>> THEN TRUE
    ELSE IF t = <<>> THEN FALSE
    ELSE IF Head(s) = Head(t) THEN IsSubsequence(Tail(s), Tail(t))
    ELSE IsSubsequence(s, Tail(t))

Occurrences(r, rows) == Cardinality({i \in 1..Len(rows) : rows[i] = r})

\* the snapshot prev with every row written twice
Doubled(df) == DataFrame(df.columns, df.rows \o df.rows)

\* C17 as stated: the result is a subsequence of current, in current's order;
\* duplicate rows of previous change nothing, and a new row that occurs k
\* times in current occurs k times in the result.
C17_SubsequenceOfCurrent ==
    (DiffCalled /\ SameColumnSets) =>
        /\ d_out.error = ""
        /\ IsSubsequence(d_out.df.rows, d_act.rows)
        /\ get_new_entries(Doubled(d_prev), d_act) = d_out
        /\ \A i \in 1..Len(d_out.df.rows) :
              Occurrences(d_out.df.rows[i], d_out.df.rows)
                  = Occurrences(d_out.df.rows[i], d_act.rows)

\* C17 amended: the result is a subsequence, in current's order, of the rows
\* of current after stripping; duplicate rows of previous change nothing, and a
\* new stripped row that occurs k times in stripped current occurs k times in
\* the result.
C17_SubsequenceOfStrippedCurrent ==
    (DiffCalled /\ SameColumnSets) =>
        LET cur == AlignedRows(d_act, d_prev.columns)
            old == AlignedRows(d_prev, d_prev.columns)
        IN  /\ d_out.error = ""
            /\ IsSubsequence(d_out.df.rows, cur)
            /\ d_out.df.rows = SelectSeq(cur, LAMBDA r : r \notin Range(old))
            /\ get_new_entries(Doubled(d_prev), d_act) = d_out
            /\ \A i \in 1..Len(d_out.df.rows) :
                  Occurrences(d_out.df.rows[i], d_out.df.rows)
                      = Occurrences(d_out.df.rows[i], cur)

\* previous holds a row twice; current holds that row and, twice (once padded),
\* a row that is new: the result holds the new row twice
C17_Witness ==
    /\ DiffCalled /\ SameColumnSets
    /\ Len(d_prev.rows) = 2 /\ d_prev.rows[1] = d_prev.rows[2]
    /\ Len(d_act.rows) = 2 /\ d_act.rows[1] # d_act.rows[2]
    /\ Len(d_out.df.rows) = 2
    /\ d_out.df.rows[1] = d_out.df.rows[2]

-----------------------------------------------------------------------------
(* Properties of chunks (ChunksSpec) *)

CeilDiv(n, d) == (n + d - 1) \div d

\* C2: chunks(L, 500) yields exactly ceil(n/500) batches, each non-empty and of
\* at most 500 urls, whose concatenation in order is L (no batch for n = 0).
C2_ChunksPartition ==
    c_out.called =>
        /\ Len(c_out.batches) = CeilDiv(Len(c_list), GSB_MAX_URLS)
        /\ \A i \in 1..Len(c_out.batches) :
              /\ c_out.batches[i] # <<>>
              /\ Len(c_out.batches[i]) <= GSB_MAX_URLS
        /\ Flatten(c_out.batches) = c_list

\* a list of more than 1000 urls is cut into two full batches and a partial one
C2_Witness ==
    /\ c_out.called
    /\ Len(c_list) > 2 * GSB_MAX_URLS
    /\ Len(c_out.batches) = 3
    /\ Len(c_out.batches[2]) = GSB_MAX_URLS
    /\ Len(c_out.batches[3]) < GSB_MAX_URLS

-----------------------------------------------------------------------------
(* Properties of request_gsb_api (GsbSpec) *)

GsbCalled == g_out # GsbNotCalled

\* the batches whose answer was read: all of them, or those before the raise
AnsweredBatches == IF g_out.error = "" THEN g_out.sent ELSE g_out.sent - 1

\* the urls of the answered batches
AnsweredUrls == SubSeq(g_urls, 1, Min(AnsweredBatches * BatchSize, Len(g_urls)))

\* the batch the i-th url belongs to
BatchOf(i) == ((i - 1) \div BatchSize) + 1

\* C3: every answered batch yields as many MatchResults as it has urls, one
\* per occurrence and in batch order, whatever matches the response lists.
C3_OneResultPerUrl ==
    GsbCalled =>
        /\ Len(g_out.rows) = Len(AnsweredUrls)
        /\ \A i \in 1..Len(g_out.rows) : g_out.rows[i].request_url = AnsweredUrls[i]

\* two batches answered; the first answer lists two matches for one url and a
\* match for a url that was not submitted, the second lists none
C3_Witness ==
    /\ GsbCalled /\ g_out.error = "" /\ g_out.sent = 2
    /\ Len(g_out.rows) = 3
    /\ g_urls[1] = g_urls[2]
    /\ Len(by_url(g_answers[1].matches, g_urls[1])) = 2
    /\ g_answers[2].matches = <<>>

MatchPositions(a, u) ==
    {k \in 1..Len(a.matches) : a.matches[k].has_url /\ a.matches[k].url = u}

FirstPosition(S) == CHOOSE k \in S : \A j \in S : k <= j

\* C4: a url's MatchResult has label 0 and the first match of the response that
\* references it as payload iff some match references it; otherwise it has
\* label 1 and an empty payload.
C4_LabelAndFirstMatch ==
    GsbCalled =>
        \A i \in 1..Len(g_out.rows) :
            LET row == g_out.rows[i]
                a   == g_answers[BatchOf(i)]
                pos == MatchPositions(a, g_urls[i])
            IN  IF pos # {}
                THEN /\ row.label = 0
                     /\ row.match_obj = a.matches[FirstPosition(pos)]
                     /\ row.match_json_obj = dumps(a.matches[FirstPosition(pos)])
                ELSE /\ row.label = 1
                     /\ row.match_obj = EmptyDict
                     /\ row.match_json_obj = dumps(EmptyDict)

\* a batch of x and y whose response holds two different matches for x only
C4_Witness ==
    /\ GsbCalled /\ g_out.error = ""
    /\ Len(g_out.rows) >= 2
    /\ g_urls[1] = UrlX /\ g_urls[2] = UrlY
    /\ Len(g_answers[1].matches) = 2
    /\ g_answers[1].matches[1] # g_answers[1].matches[2]
    /\ MatchPositions(g_answers[1], UrlX) = {1, 2}
    /\ g_out.rows[1].label = 0
    /\ g_out.rows[1].match_obj = g_answers[1].matches[1]
    /\ g_out.rows[2].label = 1

-----------------------------------------------------------------------------
(* Properties of the blacklist server (ServerSpec) *)

HeaderCount == Cardinality({i \in 1..Len(csv_lines) : csv_lines[i].kind = "header"})

\* C5: after any sequence of ledger writes the ledger holds exactly one header
\* row, as its first row: a write to a missing or empty store writes the header
\* and a write to a non-empty store writes none.
C5_OneHeaderFirst ==
    /\ s_reply = "ok" =>
          /\ csv_lines # <<>>
          /\ csv_lines[1].kind = "header"
          /\ HeaderCount = 1
          /\ \A i \in 1..Len(s_appended) :
                (s_appended[i].kind = "header")
                    <=> (i = 1 /\ Len(s_appended) = Len(csv_lines))
    /\ csv_lines # <<>> => (csv_lines[1].kind = "header" /\ HeaderCount = 1)

\* a second write, after a restart, appends rows to a ledger that has its header
C5_Witness ==
    /\ s_requests = 2 /\ s_restarts >= 1 /\ s_reply = "ok"
    /\ s_appended # <<>>
    /\ s_appended[1].kind = "row"
    /\ Len(csv_lines) > Len(s_appended) + 1

\* the ledger rows written for request record q
RowsFor(q) ==
    {i \in 1..Len(s_out) :
        /\ s_out[i].url = strip(q.url)
        /\ s_out[i].discover_time = q.discover_time
        /\ s_out[i].pulled_time = q.pulled_time}

\* C6: every UrlRecord of a handled ingestion request yields at least one
\* ledger row; one without MatchResult is written with empty match fields.
C6_NoRecordDropped ==
    s_reply = "ok" =>
        \A i \in 1..Len(s_data) : RowsFor(s_data[i]) # {}

\* the answers of the last request that are a failed call or a non-2xx status
FailedBatches ==
    {i \in 1..Len(s_answers) :
        s_answers[i].kind = "network_error" \/ s_answers[i].status # 200}

\* C7: when the call for a batch fails with a network error or a non-2xx
\* status, request_gsb_api raises and no ledger row is appended for the request.
C7_FailedBatchRaisesAndWritesNothing ==
    (s_reply # "none" /\ FailedBatches # {}) =>
        /\ s_res.error # ""
        /\ s_reply = "500"
        /\ s_appended = <<>>

IsPrefix(s, t) == Len(s) <= Len(t) /\ SubSeq(t, 1, Len(s)) = s

\* C13: no step changes, deletes or reorders what the ledger holds: the file
\* content before a step is a prefix of the content after it, and the file,
\* once there, stays.
C13_LedgerAppendOnly ==
    [][IsPrefix(csv_lines, csv_lines') /\ (csv_exists => csv_exists')]_vars

\* a second request has appended rows behind the rows of the first one
C13_Witness ==
    /\ s_requests = 2 /\ s_reply = "ok"
    /\ s_appended # <<>>
    /\ Len(csv_lines) >= Len(s_appended) + 2
    /\ SubSeq(csv_lines, Len(csv_lines) - Len(s_appended) + 1, Len(csv_lines))
           = s_appended
    /\ csv_lines[2].kind = "row"

\* C19: a handled request appends as many ledger rows as urls were submitted
\* to request_gsb_api, one per MatchResult, also when a url occurs twice.
C19_OneLedgerRowPerUrl ==
    s_reply = "ok" =>
        /\ Len(s_res.rows) = Len(UrlsOf(s_data))
        /\ Len(s_out) = Len(s_res.rows)

-----------------------------------------------------------------------------
(* Properties of two interleaving handlers (ConcSpec) *)

\* C20: however the two handlers interleave, the ledger holds at most one
\* header row.
C20_OneHeaderWhenInterleaved ==
    Cardinality({i \in 1..Len(csv_lines) : csv_lines[i].kind = "header"}) <= 1

-----------------------------------------------------------------------------
(* Properties of the poll loop (Spec) *)

\* C8: when the feed refresh of a cycle fails, the process does not crash: no
\* diff is attempted, previous stays, and the loop goes on to sleep.
C8_RefreshFailureDoesNotCrash ==
    ~(proc = "crashed" /\ why = "RuntimeError")

\* the positions of a cycle after the diff has returned
AfterDiff == pc \in {"write", "send", "sleep"}

\* C9: in a cycle that read a snapshot, previous equals that snapshot from the
\* diff on, so by the time the loop sleeps, whatever becomes of the write and
\* the send; and no row reported as new by the diff before is reported again.
C9_PreviousAdvances ==
    AfterDiff =>
        /\ prev_df = act_df
        /\ act_df = feed_csv.df
        /\ \A i \in 1..Len(new_entries.rows) : new_entries.rows[i] \notin Range(last_new)

\* a row was reported as new, the send failed, and in the next cycle the
\* unchanged feed yields no new row
C9_Witness ==
    /\ Running("sleep") /\ cycles = 2
    /\ posted # <<>> /\ posted[1].outcome = "RequestException"
    /\ last_new # <<>>
    /\ new_entries.rows = <<>>
    /\ prev_df = act_df
    /\ \E j \in 1..Len(act_df.rows) : IsStrippedFormOf(last_new[1], act_df.rows[j])

\* C10: an interrupt ends the loop only when it arrives during the sleep; one
\* that arrives mid-cycle never stops the process before the cycle is done.
C10_InterruptOnlyAtSleep ==
    why = "KeyboardInterrupt" => pc \notin {"read", "diff", "write", "send"}

\* C12: once the loop runs, no error of a cycle ends the process: neither a
\* schema mismatch in the diff nor a failed append to evaluation-feed.csv.
C12_CycleErrorsLeaveLoopRunning ==
    ~(proc = "crashed" /\ why \in {"KeyError", "IndexingError", "OSError"})

InitPositions == {"clone", "check_feed"}

InitFailures == {"cloning repository failed", "feed file not found"}

\* C15: when the clone fails or feed.csv is absent at start, the process
\* exits with a status other than 0 without having entered the loop; the
\* loop is only ever entered with a clone and an initial snapshot.
C15_InitFailureExits ==
    /\ why \in InitFailures =>
          /\ proc = "exited"
          /\ exit_status \notin {0, StillRunning}
          /\ pc \in InitPositions
          /\ act_df = NoFrame /\ pulls_since_sleep = 0
    /\ proc = "exited" => why \in InitFailures
    /\ (proc = "running" /\ pc = "check_feed") => repo_cloned
    /\ pc \notin InitPositions => (repo_cloned /\ prev_df # NoFrame)

\* the clone is there but holds no feed.csv: the process has exited with 2
C15_Witness ==
    /\ proc = "exited" /\ why = "feed file not found"
    /\ repo_cloned /\ ~feed_csv.exists
    /\ exit_status = 2 /\ pc = "check_feed"

\* C18: between two git_pull calls of the loop there is a sleep, on every
\* path through a cycle.
C18_SleepBetweenPulls ==
    pulls_since_sleep <= 1

\* C14 as stated: after a restart the baseline is the feed as it is then, so
\* no row the feed gained while the process was down is reported as new.
C14_GapRowsNeverReported ==
    restarts > 0 =>
        \A i \in 1..Len(new_entries.rows) :
            new_entries.rows[i] \notin Range(gap_rows)

\* C14 amended: at start the feed.csv of an existing clone is left as the last
\* pull wrote it, only a missing clone is fetched from upstream, and the
\* baseline is the feed.csv found in the clone.
C14_BaselineIsLocalSnapshot ==
    [][(proc = "running" /\ pc \in InitPositions) =>
          /\ repo_cloned => feed_csv' = feed_csv
          /\ (~repo_cloned /\ repo_cloned') => feed_csv' = upstream
          /\ pc' = "pull" => prev_df' = feed_csv.df]_vars

\* a restarted process on an existing clone has taken its baseline while the
\* upstream feed holds rows the baseline lacks
C14_Witness ==
    /\ restarts > 0 /\ proc = "running" /\ pc = "pull"
    /\ act_df = NoFrame
    /\ prev_df = feed_csv.df
    /\ upstream.exists /\ upstream.df # prev_df
    /\ gap_rows # <<>>
    /\ \E i \in 1..Len(gap_rows) : gap_rows[i] \notin Range(NormalizeStrings(prev_df).rows)

====
